---- MODULE Spec2Model ----
(***************************************************************************)
(* Badge collector: the progress tracker (badge_tracker.py), the catalog   *)
(* (badge_registry.py) and the phase runs built on them                    *)
(* (phase_2_competition.py, phase_4_browser.py).                           *)
(*                                                                         *)
(* Python values: a str is a TLA+ string, None is the reserved string      *)
(* None.  A dict is a sequence of [key, rec] pairs in insertion order; a   *)
(* badge record is a function from some of the field names to values.      *)
(* The file is [exists, text]; text is a sequence of JSON tokens.          *)
(***************************************************************************)
EXTENDS Naturals, Sequences, FiniteSets, TLC

\* ------------------------------------------------------------------ bounds
\* Store specification: number of tracker calls in one behaviour.
MaxOps == 2
\* Run specification: number of run() invocations in one behaviour.
MaxRuns == 2
\* Number of badges the model keeps of each phase whose handlers are not in
\* these sources (phases 1, 3, 5 and the badges of no phase): no run() here
\* writes them, and they only ride along in the file.
OtherBadges == 1
\* Run specification: number of failures in one behaviour: remote actions
\* that do not succeed, and deaths of the process.
MaxFaults == 1
\* Edit specification: number of hand edits of the file in one behaviour.
MaxEdits == 1

\* ------------------------------------------------------------ Python values
None == "<None>"

\* Python truthiness of an Optional[str].
Truthy(v) == v # None /\ v # ""

\* ----------------------------------------------------------------- catalog
Badge(id, phase, automatable) == [id |-> id, phase |-> phase, automatable |-> automatable]

\* phase 0 stands for phase=None (not automatable).
ALL_BADGES ==
    << Badge("python_coder", 1, TRUE), Badge("r_coder", 1, TRUE),
       Badge("api_notebook_creator", 1, TRUE), Badge("utility_scripter", 1, TRUE),
       Badge("code_uploader", 1, TRUE), Badge("code_forker", 1, TRUE),
       Badge("code_tagger", 1, TRUE), Badge("dataset_creator", 1, TRUE),
       Badge("api_dataset_creator", 1, TRUE), Badge("dataset_tagger", 1, TRUE),
       Badge("dataset_documenter", 1, TRUE), Badge("model_creator", 1, TRUE),
       Badge("api_model_creator", 1, TRUE), Badge("model_variation_creator", 1, TRUE),
       Badge("model_tagger", 1, TRUE), Badge("model_documenter", 1, TRUE),
       Badge("competitor", 2, TRUE), Badge("getting_started_competitor", 2, TRUE),
       Badge("playground_competitor", 2, TRUE), Badge("community_competitor", 2, TRUE),
       Badge("code_submitter", 2, TRUE), Badge("notebook_modeler", 2, TRUE),
       Badge("competition_modeler", 2, TRUE),
       Badge("dataset_pipeline_creator", 3, TRUE), Badge("model_pipeline_creator", 3, TRUE),
       Badge("r_markdown_coder", 3, TRUE),
       Badge("stylish", 4, TRUE), Badge("vampire", 4, TRUE),
       Badge("bookmarker", 4, TRUE), Badge("collector", 4, TRUE),
       Badge("github_coder", 4, TRUE), Badge("colab_coder", 4, TRUE),
       Badge("linked_dataset_creator", 4, TRUE), Badge("linked_model_creator", 4, TRUE),
       Badge("seven_day_login_streak", 5, TRUE), Badge("thirty_day_login_streak", 5, TRUE),
       Badge("submission_streak", 5, TRUE), Badge("super_submission_streak", 5, TRUE),
       Badge("contributor", 0, FALSE), Badge("expert", 0, FALSE),
       Badge("master", 0, FALSE), Badge("grandmaster", 0, FALSE),
       Badge("discussion_starter", 0, FALSE), Badge("commentator", 0, FALSE),
       Badge("voter", 0, FALSE), Badge("sharer", 0, FALSE),
       Badge("course_completer", 0, FALSE), Badge("certificate_earner", 0, FALSE),
       Badge("competition_medal", 0, FALSE), Badge("dataset_medal", 0, FALSE),
       Badge("notebook_medal", 0, FALSE), Badge("team_player", 0, FALSE),
       Badge("competition_host", 0, FALSE), Badge("simulations_competitor", 0, FALSE),
       Badge("featured_competitor", 0, FALSE) >>

\* The phases whose run() these sources hold.
Phases == {2, 4}

\* The catalog the model tracks: every badge of phases 2 and 4 and the first
\* OtherBadges badges of each other phase, in the order of ALL_BADGES.
Catalog ==
    LET numbered == [i \in DOMAIN ALL_BADGES |-> [i |-> i, badge |-> ALL_BADGES[i]]]
        NthOfPhase(i) ==
            Cardinality({j \in 1..i : ALL_BADGES[j].phase = ALL_BADGES[i].phase})
        kept == SelectSeq(numbered,
                          LAMBDA e : e.badge.phase \in Phases \/ NthOfPhase(e.i) <= OtherBadges)
    IN [n \in DOMAIN kept |-> kept[n].badge]

CatalogIds == {Catalog[i].id : i \in DOMAIN Catalog}

\* -------------------------------------------------------------------- dict
Keys(data) == {data[i].key : i \in DOMAIN data}

Has(data, k) == k \in Keys(data)

IndexOf(data, k) == CHOOSE i \in DOMAIN data : data[i].key = k

Get(data, k) == data[IndexOf(data, k)].rec

\* Mutant of Put: the record is assigned to every key.
Put_stamp_all(data, k, r) ==
    LET all == [i \in DOMAIN data |-> [key |-> data[i].key, rec |-> r]]
    IN IF \E i \in DOMAIN data : data[i].key = k THEN all
       ELSE Append(all, [key |-> k, rec |-> r])

\* Mutant of Put: the assignment is lost.
Put_lost(data, k, r) == data

\* data[k] = r: an existing key keeps its place, a new key goes last.
Put(data, k, r) ==
    IF Has(data, k)
    THEN [data EXCEPT ![IndexOf(data, k)] = [key |-> k, rec |-> r]]
    ELSE Append(data, [key |-> k, rec |-> r])

\* -------------------------------------------------------------------- JSON
JNull == [j |-> "null", s |-> ""]

JString(s) == [j |-> "string", s |-> s]

\* Mutant of EncodeValue: an empty str is written as null.
EncodeValue_empty_as_null(v) == IF v = None \/ v = "" THEN JNull ELSE JString(v)

\* json.dumps of one value: None becomes null, a str a quoted string.
EncodeValue(v) == IF v = None THEN JNull ELSE JString(v)

\* json.loads of one value.
DecodeValue(x) == IF x.j = "null" THEN None ELSE x.s

EncodeRec(r) == [f \in DOMAIN r |-> EncodeValue(r[f])]

DecodeRec(o) == [f \in DOMAIN o |-> DecodeValue(o[f])]

LBrace == [tok |-> "{", key |-> "", val |-> <<>>]

RBrace == [tok |-> "}", key |-> "", val |-> <<>>]

Newline == [tok |-> "\\n", key |-> "", val |-> <<>>]

Member(k, r) == [tok |-> "member", key |-> k, val |-> EncodeRec(r)]

\* json.dumps(data, indent=2) + "\n"
Dumps(data) ==
    <<LBrace>> \o [i \in DOMAIN data |-> Member(data[i].key, data[i].rec)]
               \o <<RBrace, Newline>>

\* The text without trailing whitespace (json.loads ignores it).
Stripped(text) ==
    IF Len(text) > 0 /\ text[Len(text)].tok = "\\n"
    THEN SubSeq(text, 1, Len(text) - 1)
    ELSE text

\* Whether json.loads(text) returns; otherwise it raises JSONDecodeError.
Parseable(text) ==
    LET t == Stripped(text) IN
    /\ Len(t) >= 2
    /\ t[1].tok = "{"
    /\ t[Len(t)].tok = "}"
    /\ \A i \in 2..(Len(t) - 1) : t[i].tok = "member"

\* json.loads(text) for a parseable text: a key stands where it first occurs
\* and keeps the value of its last occurrence.
Loads(text) ==
    LET t == Stripped(text)
        ms == SubSeq(t, 2, Len(t) - 1)
        keys == {ms[i].key : i \in DOMAIN ms}
        numbered == [i \in DOMAIN ms |-> [i |-> i, key |-> ms[i].key]]
        firsts == SelectSeq(numbered,
                            LAMBDA e : \A j \in 1..(e.i - 1) : ms[j].key # e.key)
        LastOf(k) == CHOOSE i \in DOMAIN ms :
                        /\ ms[i].key = k
                        /\ \A j \in (i + 1)..Len(ms) : ms[j].key # k
    IN IF Cardinality(keys) = Len(ms)
       THEN [n \in DOMAIN ms |-> [key |-> ms[n].key, rec |-> DecodeRec(ms[n].val)]]
       ELSE [n \in DOMAIN firsts |->
                [key |-> firsts[n].key,
                 rec |-> DecodeRec(ms[LastOf(firsts[n].key)].val)]]

\* -------------------------------------------------------------------- file
AbsentFile == [exists |-> FALSE, text |-> <<>>]

FileOf(text) == [exists |-> TRUE, text |-> text]

\* ----------------------------------------------------------- badge_tracker
PendingRecord == [status |-> "pending", updated |-> None, details |-> None]

\* Mutant of EnsureTracked: the "if badge.id not in data" test is lost and
\* every catalog badge is set to a pending record.
EnsureTracked_reset(badges, data) ==
    LET ids == {badges[i].id : i \in DOMAIN badges}
        kept == SelectSeq(data, LAMBDA e : e.key \notin ids)
    IN kept \o [i \in DOMAIN badges |-> [key |-> badges[i].id,
                                         rec |-> [status |-> "pending", updated |-> None,
                                                  details |-> None]]]

\* Mutant of EnsureTracked: the records of ids the catalog does not have are
\* dropped.
EnsureTracked_drop_unknown(badges, data) ==
    LET ids == {badges[i].id : i \in DOMAIN badges}
        known == SelectSeq(data, LAMBDA e : e.key \in ids)
        keys == {known[i].key : i \in DOMAIN known}
        missing == SelectSeq(badges, LAMBDA b : b.id \notin keys)
    IN known \o [i \in DOMAIN missing |->
                    [key |-> missing[i].id,
                     rec |-> [status |-> "pending", updated |-> None, details |-> None]]]

\* "Ensure all badges are tracked": every catalog badge missing from data is
\* added, in catalog order, as a pending record.
EnsureTracked(badges, data) ==
    LET keys == Keys(data)
        missing == SelectSeq(badges, LAMBDA b : b.id \notin keys)
    IN data \o [i \in DOMAIN missing |-> [key |-> missing[i].id, rec |-> PendingRecord]]

\* save_progress(data): the file once write_text has returned.
save_progress(data) == FileOf(Dumps(data))

\* Mutant of load_progress: a file that does not parse is read as an empty
\* mapping.
load_progress_reset(f) ==
    [raised |-> FALSE,
     data |-> EnsureTracked(Catalog,
                            IF f.exists /\ Parseable(f.text) THEN Loads(f.text) ELSE <<>>),
     file |-> f]

\* Mutant of load_progress: the completed mapping is saved before it is
\* returned.
load_progress_saves(f) ==
    IF f.exists /\ ~Parseable(f.text)
    THEN [raised |-> TRUE, data |-> <<>>, file |-> f]
    ELSE LET data == EnsureTracked(Catalog, IF f.exists THEN Loads(f.text) ELSE <<>>)
         IN [raised |-> FALSE, data |-> data, file |-> save_progress(data)]

\* load_progress(): [raised, data, file]; raised is json.loads failing, file
\* is the file the call leaves: the one it found, load_progress writes
\* nothing.
load_progress(f) ==
    IF f.exists /\ ~Parseable(f.text)
    THEN [raised |-> TRUE, data |-> <<>>, file |-> f]
    ELSE [raised |-> FALSE,
          data |-> EnsureTracked(Catalog, IF f.exists THEN Loads(f.text) ELSE <<>>),
          file |-> f]

\* Mutant of UpdatedRecord: details is stored whatever it is.
UpdatedRecord_always_details(old, status, now, details) ==
    [f \in DOMAIN old \cup {"status", "updated", "details"} |->
        IF f = "status" THEN status
        ELSE IF f = "updated" THEN now
        ELSE IF f = "details" THEN details
        ELSE old[f]]

\* Mutant of UpdatedRecord: the status of an attempting badge is kept.
UpdatedRecord_keep_attempting(old, status, now, details) ==
    [f \in DOMAIN old \cup {"status", "updated"}
              \cup (IF Truthy(details) THEN {"details"} ELSE {}) |->
        IF f = "status"
        THEN (IF "status" \in DOMAIN old /\ old["status"] = "attempting" THEN "attempting"
              ELSE status)
        ELSE IF f = "updated" THEN now
        ELSE IF f = "details" /\ Truthy(details) THEN details
        ELSE old[f]]

\* Mutant of UpdatedRecord: updated is not stamped.
UpdatedRecord_no_stamp(old, status, now, details) ==
    [f \in DOMAIN old \cup {"status", "updated"}
              \cup (IF Truthy(details) THEN {"details"} ELSE {}) |->
        IF f = "status" THEN status
        ELSE IF f = "updated" THEN (IF "updated" \in DOMAIN old THEN old["updated"] ELSE None)
        ELSE IF f = "details" /\ Truthy(details) THEN details
        ELSE old[f]]

\* Mutant of UpdatedRecord: the status of an earned badge is kept.
UpdatedRecord_keep_earned(old, status, now, details) ==
    [f \in DOMAIN old \cup {"status", "updated"}
              \cup (IF Truthy(details) THEN {"details"} ELSE {}) |->
        IF f = "status"
        THEN (IF "status" \in DOMAIN old /\ old["status"] = "earned" THEN "earned" ELSE status)
        ELSE IF f = "updated" THEN now
        ELSE IF f = "details" /\ Truthy(details) THEN details
        ELSE old[f]]

\* The record set_status leaves for badge_id.
UpdatedRecord(old, status, now, details) ==
    [f \in DOMAIN old \cup {"status", "updated"}
              \cup (IF Truthy(details) THEN {"details"} ELSE {}) |->
        IF f = "status" THEN status
        ELSE IF f = "updated" THEN now
        ELSE IF f = "details" /\ Truthy(details) THEN details
        ELSE old[f]]

\* set_status(badge_id, status, details) at time now: [raised, file].
set_status(f, badge_id, status, details, now) ==
    LET l == load_progress(f) IN
    IF l.raised THEN [raised |-> TRUE, file |-> f]
    ELSE LET old == IF Has(l.data, badge_id) THEN Get(l.data, badge_id) ELSE <<>>
             new == UpdatedRecord(old, status, now, details)
         IN [raised |-> FALSE, file |-> save_progress(Put(l.data, badge_id, new))]

\* info.get("status", "pending")
StatusOf(rec) == IF "status" \in DOMAIN rec THEN rec["status"] ELSE "pending"

\* Mutant of get_status: a load error is swallowed and pending returned.
get_status_swallow(f, badge_id) ==
    LET l == load_progress(f) IN
    [raised |-> FALSE, file |-> l.file,
     value |-> IF ~l.raised /\ Has(l.data, badge_id)
               THEN (IF "status" \in DOMAIN Get(l.data, badge_id)
                     THEN Get(l.data, badge_id)["status"] ELSE "pending")
               ELSE "pending"]

\* get_status(badge_id): [raised, value, file].
get_status(f, badge_id) ==
    LET l == load_progress(f) IN
    IF l.raised THEN [raised |-> TRUE, value |-> "", file |-> l.file]
    ELSE [raised |-> FALSE, file |-> l.file,
          value |-> IF Has(l.data, badge_id) THEN StatusOf(Get(l.data, badge_id))
                    ELSE "pending"]

\* is_earned(badge_id): [raised, value, file].
is_earned(f, badge_id) ==
    LET s == get_status(f, badge_id) IN
    [raised |-> s.raised, file |-> s.file, value |-> ~s.raised /\ s.value = "earned"]

\* Mutant of should_attempt: a failed badge is not attempted again.
should_attempt_pending_only(f, badge_id) ==
    LET s == get_status(f, badge_id) IN
    [raised |-> s.raised, file |-> s.file, value |-> ~s.raised /\ s.value = "pending"]

\* Mutant of should_attempt: a skipped badge is attempted again.
should_attempt_retry_skipped(f, badge_id) ==
    LET s == get_status(f, badge_id) IN
    [raised |-> s.raised, file |-> s.file,
     value |-> ~s.raised /\ s.value \in {"pending", "failed", "skipped"}]

\* Mutant of should_attempt: a pending badge is not attempted.
should_attempt_failed_only(f, badge_id) ==
    LET s == get_status(f, badge_id) IN
    [raised |-> s.raised, file |-> s.file, value |-> ~s.raised /\ s.value = "failed"]

\* Mutant of should_attempt: a badge left attempting is attempted again.
should_attempt_retry_attempting(f, badge_id) ==
    LET s == get_status(f, badge_id) IN
    [raised |-> s.raised, file |-> s.file,
     value |-> ~s.raised /\ s.value \in {"pending", "failed", "attempting"}]

\* should_attempt(badge_id): [raised, value, file].
should_attempt(f, badge_id) ==
    LET s == get_status(f, badge_id) IN
    [raised |-> s.raised, file |-> s.file, value |-> ~s.raised /\ s.value \in {"pending", "failed"}]


\* write_text(text) cut short by the death of the process: either the file
\* is not opened yet (f stays), or open(..., "w") has emptied it and a prefix
\* of the text has reached it.  The cut points stand for every prefix:
\* nothing, all but the closing brace, all but the trailing newline,
\* everything.
CutPoints(text) == {0, Len(text) - 2, Len(text) - 1, Len(text)}

WriteCrash(f, text) == {f} \cup {FileOf(SubSeq(text, 1, n)) : n \in CutPoints(text)}

\* _now(): the clock reading as an ISO string.
_now(t) == ToString(t)

\* ------------------------------------------------------------------- state
VARIABLES
    file,       \* PROGRESS_FILE on disk
    clock,      \* the wall clock, one tick per reading
    ops,        \* store specification: tracker calls made so far
    op,         \* store specification: the last tracker call and its result
    pc,         \* run specification: where run() is
    run_,       \* run specification: the run's locals and environment
    hist        \* run specification: what the run has done so far

vars == <<file, clock, ops, op, pc, run_, hist>>

\* ------------------------------------------------ store specification
\* The last tracker call: its name, arguments and result, the file it found
\* (before), the call made before it (prev), and whether the behaviour began
\* with no file and has made set_status calls only (setOnly).
NoOp ==
    [name |-> "none", id |-> "", status |-> "", details |-> None, raised |-> FALSE,
     value |-> "", flag |-> FALSE, data |-> <<>>, before |-> AbsentFile,
     prev |-> [name |-> "none", raised |-> FALSE, data |-> <<>>], setOnly |-> FALSE]

\* The record of a call of name, made now.
Called(name) ==
    [NoOp EXCEPT !.name = name, !.before = file,
                 !.prev = [name |-> op.name, raised |-> op.raised, data |-> op.data],
                 !.setOnly = op.setOnly /\ name = "set_status"]

Statuses == {"pending", "attempting", "earned", "failed", "skipped"}

\* A record as set_status writes it.
Rec(status, updated, details) == [status |-> status, updated |-> updated, details |-> details]

\* A file left by earlier runs under an older catalog: some badges of today's
\* catalog and one id (legacy_badge) the catalog no longer has.
OlderData ==
    << [key |-> "competitor", rec |-> Rec("earned", "0", "competition=titanic")],
       [key |-> "getting_started_competitor", rec |-> Rec("failed", "0", "boom")],
       [key |-> "playground_competitor", rec |-> Rec("attempting", "0", None)],
       [key |-> "community_competitor", rec |-> Rec("skipped", "0", "no sample_submission for x")],
       [key |-> "legacy_badge", rec |-> Rec("earned", "0", "from an older catalog")] >>

StoreFiles ==
    { AbsentFile,
      FileOf(<<>>),
      FileOf(SubSeq(Dumps(OlderData), 1, 3)),
      FileOf(Dumps(OlderData)) }

\* Badge ids the tracker is called with: one of the catalog, one the catalog
\* does not have.  Each is in the file or not, depending on the file.
CallIds == {"competitor", "legacy_badge"}

CallDetails == {None, "", "note"}

\* Mappings save_progress is called with.
SaveInputs ==
    { load_progress(AbsentFile).data,
      Put(load_progress(AbsentFile).data, "competitor", Rec("failed", "0", "")),
      load_progress(FileOf(Dumps(OlderData))).data }

RunIdle ==
    /\ pc = "idle"
    /\ run_ = <<>>
    /\ hist = <<>>

InitStore ==
    /\ file \in StoreFiles
    /\ clock = 1
    /\ ops = 0
    /\ op = [NoOp EXCEPT !.setOnly = ~file.exists]
    /\ RunIdle

StoreFrame == UNCHANGED <<pc, run_, hist>>

LoadProgressOp ==
    /\ ops < MaxOps
    /\ ops' = ops + 1
    /\ LET l == load_progress(file) IN
       /\ op' = [Called("load_progress") EXCEPT !.raised = l.raised, !.data = l.data]
       /\ file' = l.file
    /\ UNCHANGED clock
    /\ StoreFrame

SaveProgressOp ==
    /\ ops < MaxOps
    /\ ops' = ops + 1
    /\ \E m \in SaveInputs :
        /\ file' = save_progress(m)
        /\ op' = [Called("save_progress") EXCEPT !.data = m]
    /\ UNCHANGED clock
    /\ StoreFrame

\* The process dies inside save_progress(m).
SaveProgressCrashOp ==
    /\ ops < MaxOps
    /\ ops' = ops + 1
    /\ \E m \in SaveInputs :
        /\ file' \in WriteCrash(file, Dumps(m))
        /\ op' = [Called("save_progress_crash") EXCEPT !.data = m]
    /\ UNCHANGED clock
    /\ StoreFrame

SetStatusOp ==
    /\ ops < MaxOps
    /\ ops' = ops + 1
    /\ \E id \in CallIds, s \in Statuses, d \in CallDetails :
        LET r == set_status(file, id, s, d, _now(clock)) IN
        /\ file' = r.file
        /\ op' = [Called("set_status") EXCEPT !.id = id, !.status = s, !.details = d,
                                              !.raised = r.raised, !.value = _now(clock)]
    /\ clock' = clock + 1
    /\ StoreFrame

GetStatusOp ==
    /\ ops < MaxOps
    /\ ops' = ops + 1
    /\ \E id \in CallIds :
        LET r == get_status(file, id) IN
        /\ op' = [Called("get_status") EXCEPT !.id = id, !.raised = r.raised,
                                              !.value = r.value]
        /\ file' = r.file
    /\ UNCHANGED clock
    /\ StoreFrame

IsEarnedOp ==
    /\ ops < MaxOps
    /\ ops' = ops + 1
    /\ \E id \in CallIds :
        LET r == is_earned(file, id) IN
        /\ op' = [Called("is_earned") EXCEPT !.id = id, !.raised = r.raised,
                                             !.flag = r.value]
        /\ file' = r.file
    /\ UNCHANGED clock
    /\ StoreFrame

ShouldAttemptOp ==
    /\ ops < MaxOps
    /\ ops' = ops + 1
    /\ \E id \in CallIds :
        LET r == should_attempt(file, id) IN
        /\ op' = [Called("should_attempt") EXCEPT !.id = id, !.raised = r.raised,
                                                  !.flag = r.value]
        /\ file' = r.file
    /\ UNCHANGED clock
    /\ StoreFrame

NextStore ==
    \/ LoadProgressOp
    \/ SaveProgressOp
    \/ SaveProgressCrashOp
    \/ SetStatusOp
    \/ GetStatusOp
    \/ IsEarnedOp
    \/ ShouldAttemptOp

SpecStore == InitStore /\ [][NextStore]_vars


\* ------------------------------------------------------ the phases' handlers
Handler(name, fn, targets) == [name |-> name, fn |-> fn, targets |-> targets]

\* phase_2_competition.run: actions
Phase2Actions ==
    << Handler("Titanic submission", "_submit_titanic",
               <<"competitor", "getting_started_competitor">>),
       Handler("Playground submission", "_submit_playground", <<"playground_competitor">>),
       Handler("Community submission", "_submit_community", <<"community_competitor">>),
       Handler("Code submission", "_code_submission", <<"code_submitter", "notebook_modeler">>),
       Handler("Competition modeler", "_competition_modeler", <<"competition_modeler">>) >>

\* phase_4_browser.run: actions
Phase4Actions ==
    << Handler("Fill profile (Stylish)", "_fill_profile", <<"stylish">>),
       Handler("Dark theme (Vampire)", "_dark_theme", <<"vampire">>),
       Handler("Bookmark content", "_bookmark", <<"bookmarker">>),
       Handler("Add to collection", "_collector", <<"collector">>),
       Handler("GitHub Coder", "_github_coder", <<"github_coder">>),
       Handler("Colab Coder", "_colab_coder", <<"colab_coder">>),
       Handler("Linked dataset", "_linked_dataset", <<"linked_dataset_creator">>),
       Handler("Linked model", "_linked_model", <<"linked_model_creator">>) >>

\* Mutant of Actions: the first handler is registered twice.
Actions_first_twice(phase) ==
    LET a == IF phase = 2 THEN Phase2Actions ELSE Phase4Actions IN <<a[1]>> \o a

\* Mutant of Actions: the last handler is not registered.
Actions_without_last(phase) ==
    LET a == IF phase = 2 THEN Phase2Actions ELSE Phase4Actions IN SubSeq(a, 1, Len(a) - 1)

Actions(phase) == IF phase = 2 THEN Phase2Actions ELSE Phase4Actions

\* The environment of one run: whether templates/submission_titanic.csv
\* exists, what importing playwright does (it works, raises ImportError, or
\* raises something else), whether Kaggle credentials are found.
Env(template, playwright, creds) ==
    [template |-> template, playwright |-> playwright, creds |-> creds]

Envs(phase) ==
    IF phase = 2
    THEN {Env(t, "available", TRUE) : t \in BOOLEAN}
    ELSE {Env(TRUE, "available", c) : c \in BOOLEAN}
            \cup {Env(TRUE, "missing", TRUE), Env(TRUE, "broken", TRUE)}

\* str(e) of the exceptions the remote work raises.
ErrTexts == {"", "boom"}

\* The competition _find_competition_by_category returns, when it finds one.
Comp == "s6e2"

\* One way a handler's body can go once its targets are marked: the
\* set_status calls it makes for every actionable target, in order
\* (writes), what it returns (ret), whether an exception leaves the handler
\* (escapes), whether it started its remote action (remote), how many
\* failures of the remote side it met (faults), and the text of the last
\* exception it caught (exc, None when it caught none).
Outcome(writes, ret, remote, faults, exc) ==
    [writes |-> writes, ret |-> ret, escapes |-> FALSE, remote |-> remote,
     faults |-> faults, exc |-> exc]

\* Mutant of W: an earned badge is written as "done".
W_done(status, details) ==
    [status |-> IF status = "earned" THEN "done" ELSE status, details |-> details]

\* set_status(bid, status, details) as a handler calls it.
W(status, details) == [status |-> status, details |-> details]

\* _try_playwright() raising anything but ImportError: nothing catches it.
ProbeEscapes ==
    [writes |-> <<>>, ret |-> FALSE, escapes |-> TRUE, remote |-> FALSE,
     faults |-> 0, exc |-> None]

\* (the source's text has an em dash where this has a hyphen)
NoPlaywright == "Playwright not available - manual action needed"

\* _submit_titanic, from the try on.
SubmitTitanic(env) ==
    IF ~env.template
    THEN {Outcome(<<W("failed", "template missing")>>, FALSE, FALSE, 0, None)}
    ELSE {Outcome(<<W("earned", "competition=titanic")>>, TRUE, TRUE, 0, None)}
            \cup {Outcome(<<W("failed", t)>>, FALSE, TRUE, 1, t) : t \in ErrTexts}

\* _submit_playground and _submit_community, from the try on.
SubmitByCategory(none_found) ==
    { Outcome(<<W("skipped", none_found)>>, FALSE, TRUE, 1, None),
      Outcome(<<W("skipped", "no sample_submission for " \o Comp)>>, FALSE, TRUE, 1, None),
      Outcome(<<W("earned", "competition=" \o Comp)>>, TRUE, TRUE, 0, None),
      Outcome(<<W("failed", "submit failed for " \o Comp)>>, FALSE, TRUE, 1, None) }
        \cup {Outcome(<<W("failed", t)>>, FALSE, TRUE, 1, t) : t \in ErrTexts}

\* _code_submission and _competition_modeler, from the try on.
PushNotebook(nb_slug) ==
    {Outcome(<<W("earned", "notebook=" \o nb_slug)>>, TRUE, TRUE, 0, None)}
        \cup {Outcome(<<W("failed", t)>>, FALSE, TRUE, 1, t) : t \in ErrTexts}

\* browser.close() in the finally of the inner try: it returns, or it raises
\* and the outer except records the targets failed.
ThenClose(o) ==
    {o} \cup {Outcome(o.writes \o <<W("failed", t)>>, FALSE, TRUE, o.faults + 1, t) :
                t \in ErrTexts}

\* An exception inside the inner try with no except of its own: the finally
\* closes the browser, and the outer except records the exception that
\* leaves the finally (the one close() raised, if it raised).
RaisedInside ==
    {Outcome(<<W("failed", t)>>, FALSE, TRUE, 1, t) : t \in ErrTexts}
        \cup {Outcome(<<W("failed", t)>>, FALSE, TRUE, 2, t) : t \in ErrTexts}

\* _fill_profile, from the probe on.
FillProfile(env) ==
    IF env.playwright = "broken" THEN {ProbeEscapes}
    ELSE IF env.playwright = "missing"
    THEN {Outcome(<<W("skipped", NoPlaywright)>>, FALSE, FALSE, 0, None)}
    ELSE IF ~env.creds
    THEN {Outcome(<<W("failed", "no credentials")>>, FALSE, FALSE, 0, None)}
    ELSE {Outcome(<<W("failed", t)>>, FALSE, TRUE, 1, t) : t \in ErrTexts}
            \cup ThenClose(Outcome(<<W("earned", "profile filled via Playwright")>>,
                                   TRUE, TRUE, 0, None))
            \cup UNION {ThenClose(Outcome(<<W("failed", t)>>, FALSE, TRUE, 1, t)) :
                            t \in ErrTexts}

\* _dark_theme and _bookmark, from the probe on (needs_creds: _dark_theme).
ClickButton(env, needs_creds, done, not_found) ==
    IF env.playwright = "broken" THEN {ProbeEscapes}
    ELSE IF env.playwright = "missing"
    THEN {Outcome(<<W("skipped", NoPlaywright)>>, FALSE, FALSE, 0, None)}
    ELSE IF needs_creds /\ ~env.creds
    THEN {Outcome(<<W("failed", "no credentials")>>, FALSE, FALSE, 0, None)}
    ELSE {Outcome(<<W("failed", t)>>, FALSE, TRUE, 1, t) : t \in ErrTexts}
            \cup ThenClose(Outcome(<<W("earned", done)>>, TRUE, TRUE, 0, None))
            \cup ThenClose(Outcome(<<W("skipped", not_found)>>, FALSE, TRUE, 1, None))
            \cup RaisedInside

\* _collector, from the probe on.
Collector(env) ==
    IF env.playwright = "broken" THEN {ProbeEscapes}
    ELSE IF env.playwright = "missing"
    THEN {Outcome(<<W("skipped", NoPlaywright)>>, FALSE, FALSE, 0, None)}
    ELSE {Outcome(<<W("skipped", "complex browser interaction - manual action recommended")>>,
                  FALSE, FALSE, 0, None)}

\* _github_coder, _colab_coder, _linked_dataset, _linked_model.
ManualOnly(why) == {Outcome(<<W("skipped", why)>>, FALSE, FALSE, 0, None)}

Outcomes(fn, env) ==
    CASE fn = "_submit_titanic" -> SubmitTitanic(env)
      [] fn = "_submit_playground" -> SubmitByCategory("no active playground competition")
      [] fn = "_submit_community" ->
            SubmitByCategory("no active research competition (CLI has no 'community' category)")
      [] fn = "_code_submission" -> PushNotebook("titanic-submit")
      [] fn = "_competition_modeler" -> PushNotebook("comp-modeler")
      [] fn = "_fill_profile" -> FillProfile(env)
      [] fn = "_dark_theme" ->
            ClickButton(env, TRUE, "dark theme via Playwright", "theme toggle not found")
      [] fn = "_bookmark" ->
            ClickButton(env, FALSE, "bookmarked via Playwright", "bookmark button not found")
      [] fn = "_collector" -> Collector(env)
      [] fn = "_github_coder" -> ManualOnly("requires GitHub linking via UI")
      [] fn = "_colab_coder" -> ManualOnly("requires Colab action via UI")
      [] fn = "_linked_dataset" -> ManualOnly("requires URL-linked dataset via UI")
      [] fn = "_linked_model" -> ManualOnly("requires linked model via UI")

\* Mutant of Actionable: when one target is to be attempted, all are.
Actionable_all_targets(f, targets) ==
    IF \E i \in DOMAIN targets : should_attempt(f, targets[i]).value
    THEN targets ELSE <<>>

\* Mutant of Actionable: a skipped target is attempted again.
Actionable_retry_skipped(f, targets) ==
    SelectSeq(targets, LAMBDA b : get_status(f, b).value \in {"pending", "failed", "skipped"})

\* actionable = [b for b in badge_ids if should_attempt(b)]
Actionable(f, targets) ==
    SelectSeq(targets, LAMBDA b : should_attempt(f, b).value)

\* ---------------------------------------------------- run specification
NoFile == [exists |-> FALSE, text |-> <<>>]

NoLast ==
    [h |-> 0, fn |-> "", targets |-> <<>>, actionable |-> <<>>, ret |-> FALSE,
     exc |-> None, caught |-> FALSE, remote |-> FALSE, writes |-> <<>>, saves |-> 0,
     before |-> NoFile]

NoRun ==
    [phase |-> 2, env |-> Env(TRUE, "available", TRUE), h |-> 0, actionable |-> <<>>,
     i |-> 0, todo |-> <<>>, w |-> 0, out |-> ProbeEscapes,
     attempted |-> 0, succeeded |-> 0]

\* The last hand edit of the file: the badge, what was done to its record
\* (set to pending, or removed), the file before the edit, and the number of
\* runs started before it.
NoEdit == [id |-> "", kind |-> "", before |-> NoFile, run |-> 0]

\* runs, faults, edits: what the behaviour has used of its bounds.  marked:
\* the targets the run has set to attempting, in order.
\* The rest is the record of the current run: the file when it started and
\* when the current handler started, the handlers invoked, the handlers
\* whose remote action has begun, the save_progress calls completed in the
\* run and in the current handler, the error that left run(), where the
\* process died, the last handler that returned, what the handlers
\* returned, and what run() returned.  fresh: the behaviour began with no
\* file.  recorded: for every handler that returned, the <<target, status>>
\* pairs of its last set_status calls.  terminal: the <<target, status>>
\* pairs with status earned or skipped that the run has persisted.
\* skippedBefore: the targets the earlier runs persisted as skipped.
NoHist ==
    [runs |-> 0, faults |-> 0, fresh |-> TRUE, runStart |-> NoFile,
     hStart |-> NoFile, invoked |-> <<>>, remote |-> <<>>, saves |-> 0, hSaves |-> 0,
     error |-> "", crashedAt |-> "", last |-> NoLast, rets |-> <<>>, result |-> <<0, 0>>,
     recorded |-> <<>>, terminal |-> {}, skippedBefore |-> {}, marked |-> <<>>,
     edits |-> 0, edit |-> NoEdit]

\* The files a first run can find: none, or the one earlier runs left.
RunFiles == {AbsentFile, FileOf(Dumps(OlderData))}

Init ==
    /\ file \in RunFiles
    /\ clock = 1
    /\ ops = 0
    /\ op = NoOp
    /\ pc = "idle"
    /\ run_ = NoRun
    /\ hist = [NoHist EXCEPT !.fresh = ~file.exists]

RunFrame == UNCHANGED <<ops, op>>

Running == pc \in {"enter", "mark", "act", "record"}

CurrentHandler == Actions(run_.phase)[run_.h]

\* python phase_N.py: run(username) is called in a new process.  One
\* behaviour follows one phase on one installation: the first run chooses
\* the phase and the environment, the later runs keep them.
StartRun ==
    /\ ~Running
    /\ hist.runs < MaxRuns
    /\ \E phase \in Phases : \E env \in Envs(phase) :
        /\ hist.runs > 0 => (phase = run_.phase /\ env = run_.env)
        /\ run_' = [NoRun EXCEPT !.phase = phase, !.env = env, !.h = 1]
    /\ pc' = "enter"
    /\ hist' = [NoHist EXCEPT !.runs = hist.runs + 1, !.faults = hist.faults,
                              !.fresh = hist.fresh,
                              !.runStart = file,
                              !.edits = hist.edits, !.edit = hist.edit,
                              !.skippedBefore =
                                  hist.skippedBefore
                                      \cup {p[1] : p \in {q \in hist.terminal :
                                                             q[2] = "skipped"}}]
    /\ UNCHANGED <<file, clock>>
    /\ RunFrame

\* Mutant of NextHandler: run() stops at the first handler that reports
\* failure.
NextHandler_stop_on_failure(phase, h, ret) ==
    IF ret THEN h + 1 ELSE Len(Actions(phase)) + 1

\* "for name, fn in actions": the handler run() goes to once handler h has
\* returned ret.
NextHandler(phase, h, ret) == h + 1

\* Mutant of CountSuccess: every handler that returns is counted.
CountSuccess_always(succeeded, ret) == succeeded + 1

\* "if fn(username): succeeded += 1"
CountSuccess(succeeded, ret) == succeeded + (IF ret THEN 1 ELSE 0)

\* The earned or skipped status the set_status call at hand persists.
Persisted ==
    IF pc = "record" /\ run_.todo[run_.w].status \in {"earned", "skipped"}
    THEN {<<run_.actionable[run_.i], run_.todo[run_.w].status>>}
    ELSE {}

\* A handler that returns ret to run().
Returned(ret, o, saves) ==
    /\ pc' = "enter"
    /\ run_' = [run_ EXCEPT !.h = NextHandler(run_.phase, run_.h, ret), !.actionable = <<>>, !.i = 0,
                            !.todo = <<>>, !.w = 0, !.out = ProbeEscapes,
                            !.attempted = IF pc = "enter" THEN run_.attempted + 1
                                          ELSE run_.attempted,
                            !.succeeded = CountSuccess(run_.succeeded, ret)]
    /\ hist' = [hist EXCEPT
                  !.saves = hist.saves + saves,
                  !.hSaves = 0,
                  !.rets = Append(hist.rets, ret),
                  !.terminal = hist.terminal \cup Persisted,
                  !.recorded =
                      Append(hist.recorded,
                             IF pc = "enter" THEN {}
                             ELSE {<<run_.actionable[i], o.writes[Len(o.writes)].status>> :
                                      i \in DOMAIN run_.actionable}),
                  !.invoked = IF pc = "enter" THEN Append(hist.invoked, CurrentHandler.fn)
                              ELSE hist.invoked,
                  !.last = [h |-> run_.h, fn |-> CurrentHandler.fn,
                            targets |-> CurrentHandler.targets,
                            actionable |-> IF pc = "enter" THEN <<>> ELSE run_.actionable,
                            ret |-> ret, exc |-> o.exc, caught |-> o.faults > 0 /\ o.exc # None,
                            remote |-> o.remote, writes |-> o.writes,
                            saves |-> hist.hSaves + saves,
                            before |-> IF pc = "enter" THEN file ELSE hist.hStart]]

\* run(): "attempted += 1", the call of the handler, and the handler up to
\* its first set_status: the should_attempt calls.  A file that does not
\* parse makes should_attempt raise, outside every try: run() is left.
EnterHandler ==
    /\ pc = "enter"
    /\ run_.h <= Len(Actions(run_.phase))
    /\ IF should_attempt(file, CurrentHandler.targets[1]).raised
       THEN /\ pc' = "aborted"
            /\ run_' = [run_ EXCEPT !.attempted = run_.attempted + 1]
            /\ hist' = [hist EXCEPT !.error = "JSONDecodeError",
                                    !.invoked = Append(hist.invoked, CurrentHandler.fn)]
       ELSE IF Actionable(file, CurrentHandler.targets) = <<>>
       THEN Returned(TRUE, Outcome(<<>>, TRUE, FALSE, 0, None), 0)
       ELSE /\ pc' = "mark"
            /\ run_' = [run_ EXCEPT !.attempted = run_.attempted + 1,
                                    !.actionable = Actionable(file, CurrentHandler.targets),
                                    !.i = 1]
            /\ hist' = [hist EXCEPT !.hStart = file, !.hSaves = 0,
                                    !.invoked = Append(hist.invoked, CurrentHandler.fn)]
    /\ file' = should_attempt(file, CurrentHandler.targets[1]).file
    /\ UNCHANGED clock
    /\ RunFrame

\* Mutant of MarkTargets: only the first actionable target is marked.
MarkTargets_first_only(actionable) == <<actionable[1]>>

\* The targets "for bid in actionable: set_status(bid, "attempting")" marks.
MarkTargets(actionable) == actionable

\* "for bid in actionable: set_status(bid, "attempting")", one call a step.
MarkAttempting ==
    /\ pc = "mark"
    /\ LET r == set_status(file, MarkTargets(run_.actionable)[run_.i], "attempting",
                           None, _now(clock)) IN
       IF r.raised
       THEN /\ pc' = "aborted"
            /\ hist' = [hist EXCEPT !.error = "JSONDecodeError"]
            /\ UNCHANGED <<file, run_>>
       ELSE /\ file' = r.file
            /\ hist' = [hist EXCEPT !.hSaves = hist.hSaves + 1,
                                    !.marked = Append(hist.marked,
                                                      MarkTargets(run_.actionable)[run_.i])]
            /\ IF run_.i < Len(MarkTargets(run_.actionable))
               THEN /\ pc' = "mark"
                    /\ run_' = [run_ EXCEPT !.i = run_.i + 1]
               ELSE /\ pc' = "act"
                    /\ run_' = [run_ EXCEPT !.i = 0]
    /\ clock' = clock + 1
    /\ RunFrame

\* The handler's body up to its next set_status: the capability probe, the
\* remote action and what the handler makes of it.
Act ==
    /\ pc = "act"
    /\ \E o \in Outcomes(CurrentHandler.fn, run_.env) :
        /\ hist.faults + o.faults <= MaxFaults
        /\ IF o.escapes
           THEN /\ pc' = "aborted"
                /\ run_' = run_
                /\ hist' = [hist EXCEPT !.error = "probe"]
           ELSE /\ pc' = "record"
                /\ run_' = [run_ EXCEPT !.todo = o.writes, !.w = 1, !.i = 1, !.out = o]
                /\ hist' = [hist EXCEPT
                              !.faults = hist.faults + o.faults,
                              !.remote = IF o.remote
                                         THEN Append(hist.remote, CurrentHandler.fn)
                                         ELSE hist.remote]
    /\ UNCHANGED <<file, clock>>
    /\ RunFrame

\* "for bid in actionable: set_status(bid, status, details)", one call a
\* step; after the last call the handler returns.
Record ==
    /\ pc = "record"
    /\ LET wr == run_.todo[run_.w]
           r == set_status(file, run_.actionable[run_.i], wr.status, wr.details, _now(clock))
       IN
       IF r.raised
       THEN /\ pc' = "aborted"
            /\ hist' = [hist EXCEPT !.error = "JSONDecodeError"]
            /\ UNCHANGED <<file, run_>>
       ELSE /\ file' = r.file
            /\ IF run_.i < Len(run_.actionable)
               THEN /\ pc' = "record"
                    /\ run_' = [run_ EXCEPT !.i = run_.i + 1]
                    /\ hist' = [hist EXCEPT !.hSaves = hist.hSaves + 1,
                                            !.terminal = hist.terminal \cup Persisted]
               ELSE IF run_.w < Len(run_.todo)
               THEN /\ pc' = "record"
                    /\ run_' = [run_ EXCEPT !.i = 1, !.w = run_.w + 1]
                    /\ hist' = [hist EXCEPT !.hSaves = hist.hSaves + 1,
                                            !.terminal = hist.terminal \cup Persisted]
               ELSE Returned(run_.out.ret, run_.out, 1)
    /\ clock' = clock + 1
    /\ RunFrame

\* "return attempted, succeeded"
ReturnRun ==
    /\ pc = "enter"
    /\ run_.h > Len(Actions(run_.phase))
    /\ pc' = "done"
    /\ hist' = [hist EXCEPT !.result = <<run_.attempted, run_.succeeded>>]
    /\ UNCHANGED <<file, clock, run_>>
    /\ RunFrame

\* The process dies (kill, power loss) outside any write of the file.
Crash ==
    /\ Running
    /\ hist.faults < MaxFaults
    /\ pc' = "crashed"
    /\ hist' = [hist EXCEPT !.faults = hist.faults + 1, !.crashedAt = pc]
    /\ UNCHANGED <<file, clock, run_>>
    /\ RunFrame

\* The process dies inside the write_text of the next set_status.
CrashInSave ==
    /\ pc \in {"mark", "record"}
    /\ hist.faults < MaxFaults
    /\ LET status == IF pc = "mark" THEN "attempting" ELSE run_.todo[run_.w].status
           details == IF pc = "mark" THEN None ELSE run_.todo[run_.w].details
           bid == IF pc = "mark" THEN MarkTargets(run_.actionable)[run_.i]
                  ELSE run_.actionable[run_.i]
           r == set_status(file, bid, status, details, _now(clock))
       IN /\ ~r.raised
          /\ file' \in WriteCrash(file, r.file.text) \ {file}
    /\ pc' = "crashed"
    /\ hist' = [hist EXCEPT !.faults = hist.faults + 1, !.crashedAt = "save"]
    /\ clock' = clock + 1
    /\ UNCHANGED run_
    /\ RunFrame

Next ==
    \/ StartRun
    \/ EnterHandler
    \/ MarkAttempting
    \/ Act
    \/ Record
    \/ ReturnRun
    \/ Crash
    \/ CrashInSave

Spec == Init /\ [][Next]_vars

\* ---------------------------------------------------- edit specification
\* The text with the record of id set to status pending, its other fields
\* kept.
EditPending(text, id) ==
    [i \in DOMAIN text |->
        IF text[i].tok = "member" /\ text[i].key = id
        THEN [tok |-> "member", key |-> id,
              val |-> [f \in DOMAIN text[i].val \cup {"status"} |->
                          IF f = "status" THEN JString("pending") ELSE text[i].val[f]]]
        ELSE text[i]]

\* The text with the record of id removed.
EditRemoved(text, id) ==
    SelectSeq(text, LAMBDA e : ~(e.tok = "member" /\ e.key = id))

\* The badges that are reset by hand: in each phase a target of its first
\* handler and the target of a later handler with one target.
EditIds(phase) ==
    IF phase = 2 THEN {"competitor", "community_competitor"}
    ELSE {"stylish", "github_coder"}

\* Between two runs somebody edits badge-progress.json by hand, once, to
\* reset one badge that is not pending: the status of its record is set to
\* pending, or the record is removed.
ExternalEdit ==
    /\ pc \in {"done", "aborted"}
    /\ hist.runs < MaxRuns
    /\ hist.edits < MaxEdits
    /\ hist.edit.id = "" \/ hist.edit.run < hist.runs
    /\ file.exists
    /\ Parseable(file.text)
    /\ \E id \in EditIds(run_.phase), kind \in {"pending", "removed"} :
        /\ get_status(file, id).value # "pending"
        /\ file' = FileOf(IF kind = "pending" THEN EditPending(file.text, id)
                          ELSE EditRemoved(file.text, id))
        /\ hist' = [hist EXCEPT !.edits = hist.edits + 1,
                                !.edit = [id |-> id, kind |-> kind, before |-> file,
                                          run |-> hist.runs]]
    /\ UNCHANGED <<clock, pc, run_>>
    /\ RunFrame

\* Runs that are not killed, with hand edits between them.
NextEdit ==
    \/ StartRun
    \/ EnterHandler
    \/ MarkAttempting
    \/ Act
    \/ Record
    \/ ReturnRun
    \/ ExternalEdit

SpecEdit == Init /\ [][NextEdit]_vars

\* ================================================================== claims
\* Helpers of the claims: what a file holds, read off its text.
FileMembers(f) ==
    IF f.exists /\ Parseable(f.text)
    THEN LET text == Stripped(f.text) IN SubSeq(text, 2, Len(text) - 1)
    ELSE <<>>

FileKeys(f) == LET members == FileMembers(f) IN {members[i].key : i \in DOMAIN members}

Readable(f) == ~f.exists \/ Parseable(f.text)

\* The JSON object the file holds for id (ids are unique in the files here).
FileObject(f, id) ==
    LET members == FileMembers(f)
    IN members[CHOOSE i \in DOMAIN members : members[i].key = id].val

\* The status the file records for id; pending when it records none.
FileStatus(f, id) ==
    LET members == FileMembers(f)
        at == {i \in DOMAIN members : members[i].key = id}
    IN IF at = {} THEN "pending"
       ELSE LET object == members[CHOOSE i \in at : TRUE].val
            IN IF "status" \in DOMAIN object THEN object["status"].s ELSE "pending"

\* C1: a crash inside save_progress(m_new) over a file holding m_old leaves a
\* file from which load_progress() returns m_old or m_new, never fails.
C1_SaveIsAtomic ==
    (op.name = "save_progress_crash" /\ op.before.exists /\ Readable(op.before)) =>
        /\ ~load_progress(file).raised
        /\ load_progress(file).data \in
              {load_progress(op.before).data, load_progress(save_progress(op.data)).data}

C3_LoadCoversCatalog ==
    (op.name = "load_progress" /\ Readable(op.before)) =>
        /\ ~op.raised
        /\ \A id \in CatalogIds :
              Cardinality({i \in DOMAIN op.data : op.data[i].key = id}) = 1
        /\ \A id \in CatalogIds \ FileKeys(op.before) :
              Get(op.data, id) = [status |-> "pending", updated |-> None, details |-> None]
        /\ \A id \in FileKeys(op.before) :
              /\ Has(op.data, id)
              /\ EncodeRec(Get(op.data, id)) = FileObject(op.before, id)

C3_Witness ==
    /\ op.name = "load_progress"
    /\ ~op.raised
    /\ FileKeys(op.before) \cap CatalogIds # {}
    /\ CatalogIds \ FileKeys(op.before) # {}
    /\ FileKeys(op.before) \ CatalogIds # {}

\* C4: over a file that exists and does not parse, load_progress() and the
\* calls built on it (get_status, is_earned, should_attempt, set_status)
\* fail, return nothing, and leave the file as it is.
C4_UnparseableFails ==
    (/\ op.name \in {"load_progress", "get_status", "is_earned", "should_attempt", "set_status"}
     /\ ~Readable(op.before)) =>
        /\ op.raised
        /\ op.data = <<>>
        /\ file = op.before

C4_Witness ==
    /\ op.name = "set_status"
    /\ op.raised
    /\ op.before.exists
    /\ op.before.text # <<>>


\* Helpers of the run claims.
Range(seq) == {seq[i] : i \in DOMAIN seq}

\* The details the file records for id; None when it records none.
FileDetails(f, id) ==
    LET members == FileMembers(f)
        at == {i \in DOMAIN members : members[i].key = id}
    IN IF at = {} THEN None
       ELSE LET object == members[CHOOSE i \in at : TRUE].val
            IN IF "details" \in DOMAIN object THEN DecodeValue(object["details"]) ELSE None

\* The file holds the same for id in f and in g.
SameRecord(f, g, id) ==
    LET inF == SelectSeq(FileMembers(f), LAMBDA m : m.key = id)
        inG == SelectSeq(FileMembers(g), LAMBDA m : m.key = id)
    IN inF = inG

\* The targets of a handler that were eligible when the file was f.
Eligible(f, targets) == {t \in Range(targets) : FileStatus(f, t) \in {"pending", "failed"}}

\* A handler has just returned to run().
JustReturned == pc = "enter" /\ hist.last.h > 0 /\ hist.last.h = run_.h - 1

NumHandlers == Len(Actions(run_.phase))

\* C5: when the file does not parse at the start of run(), the load error
\* leaves run() (it is the only way out but the death of the process), no
\* handler starts its remote action, and nothing is written.
C5_LoadErrorLeavesRun ==
    (hist.runs > 0 /\ ~Readable(hist.runStart)) =>
        /\ pc \in {"enter", "aborted", "crashed"}
        /\ pc = "enter" => run_.h = 1
        /\ pc = "aborted" => hist.error = "JSONDecodeError"
        /\ hist.remote = <<>>
        /\ hist.saves = 0 /\ hist.hSaves = 0
        /\ file = hist.runStart

C5_Witness ==
    /\ pc = "aborted"
    /\ hist.error = "JSONDecodeError"
    /\ ~Readable(hist.runStart)
    /\ hist.invoked # <<>>

\* C6 as claimed: after a handler caught an error of its remote action,
\* every target that was eligible at its start is failed with the error's
\* text as details, whatever the text, and run() is at the next handler.
C6_FailedWithErrorText ==
    (JustReturned /\ hist.last.caught) =>
        /\ \A t \in Eligible(hist.last.before, hist.last.targets) :
              /\ FileStatus(file, t) = "failed"
              /\ FileDetails(file, t) = hist.last.exc
        /\ ~hist.last.ret

\* The details a target has after the handler's writes when the last write
\* brings an empty text: those of the last write that brought one, else
\* those it had when the handler started.
KeptDetails(writes, before, t) ==
    LET given == {i \in DOMAIN writes : Truthy(writes[i].details)}
    IN IF given = {} THEN FileDetails(before, t)
       ELSE writes[CHOOSE i \in given : \A j \in given : j <= i].details

\* C6 as amended: ... with the error's text as details when the text is not
\* empty; an empty text leaves the details the record had.  run() is then
\* at the next handler, having counted this one as attempted, not succeeded.
C6_FailedWithNonEmptyErrorText ==
    (JustReturned /\ hist.last.caught) =>
        /\ \A t \in Eligible(hist.last.before, hist.last.targets) :
              /\ FileStatus(file, t) = "failed"
              /\ hist.last.exc # "" => FileDetails(file, t) = hist.last.exc
              /\ hist.last.exc = "" =>
                    FileDetails(file, t) = KeptDetails(hist.last.writes, hist.last.before, t)
        /\ ~hist.last.ret
        /\ run_.attempted = hist.last.h
        /\ run_.h = hist.last.h + 1
        /\ Len(hist.invoked) = hist.last.h

C6_Witness ==
    /\ JustReturned
    /\ hist.last.caught
    /\ hist.last.exc = "boom"
    /\ Cardinality(Eligible(hist.last.before, hist.last.targets)) = 2
    /\ run_.h <= NumHandlers

\* C7: with a file that parses, no error of a handler's own work leaves
\* run(): run() invokes every handler and returns its counters.
C7_NoHandlerErrorLeavesRun ==
    (hist.runs > 0 /\ Readable(hist.runStart)) =>
        /\ pc # "aborted"
        /\ pc = "done" => /\ Len(hist.invoked) = NumHandlers
                          /\ hist.result = <<run_.attempted, run_.succeeded>>

\* C8: when the remote action of a handler begins, every target that was
\* eligible at the handler's start is attempting in the file, and a process
\* that dies during the remote action leaves it so.
C8_AttemptingBeforeRemoteAction ==
    (pc = "act" \/ (pc = "crashed" /\ hist.crashedAt = "act")) =>
        /\ Eligible(hist.hStart, CurrentHandler.targets) # {}
        /\ \A t \in Eligible(hist.hStart, CurrentHandler.targets) :
              FileStatus(file, t) = "attempting"

C8_Witness ==
    /\ pc = "crashed"
    /\ hist.crashedAt = "act"
    /\ Cardinality(Eligible(hist.hStart, CurrentHandler.targets)) = 2

\* No target of any handler of the phase was eligible when the file was f.
NothingEligible(f) ==
    \A i \in DOMAIN Actions(run_.phase) : Eligible(f, Actions(run_.phase)[i].targets) = {}

C10_IneligibleTargetsUntouched ==
    /\ pc \in {"mark", "act", "record"} =>
          \A t \in Range(CurrentHandler.targets) \ Eligible(hist.hStart, CurrentHandler.targets) :
              SameRecord(hist.hStart, file, t)
    /\ JustReturned =>
          \A t \in Range(hist.last.targets) \ Eligible(hist.last.before, hist.last.targets) :
              SameRecord(hist.last.before, file, t)
    /\ pc = "done" =>
          \A id \in FileKeys(hist.runStart) :
              FileStatus(hist.runStart, id) = "earned" =>
                  /\ FileStatus(file, id) = "earned"
                  /\ SameRecord(hist.runStart, file, id)

C10_Witness ==
    /\ JustReturned
    /\ hist.last.ret
    /\ Len(hist.last.targets) = 2
    /\ FileStatus(hist.last.before, hist.last.targets[1]) = "earned"
    /\ FileStatus(hist.last.before, hist.last.targets[2]) = "failed"
    /\ FileStatus(file, hist.last.targets[2]) = "earned"

\* The targets of handler h of the phase.
TargetsOf(h) == Range(Actions(run_.phase)[h].targets)

\* C11: when the process is killed between two handler invocations of a run
\* that found a readable store, load_progress() succeeds and shows, for
\* every handler that returned, the statuses it recorded (and its other
\* targets as before the run), and the targets of the handlers not yet
\* started as they were before the run.
C11_DurableBetweenHandlers ==
    (pc = "crashed" /\ hist.crashedAt = "enter" /\ Readable(hist.runStart)) =>
        LET l == load_progress(file)
            before == load_progress(hist.runStart)
        IN /\ ~l.raised
           /\ Len(hist.recorded) = run_.h - 1
           /\ \A h \in DOMAIN hist.recorded :
                 /\ \A p \in hist.recorded[h] : StatusOf(Get(l.data, p[1])) = p[2]
                 /\ \A t \in TargetsOf(h) \ {p[1] : p \in hist.recorded[h]} :
                       Get(l.data, t) = Get(before.data, t)
           /\ \A h \in run_.h..NumHandlers : \A t \in TargetsOf(h) :
                 Get(l.data, t) = Get(before.data, t)

C11_Witness ==
    /\ pc = "crashed"
    /\ hist.crashedAt = "enter"
    /\ run_.h \in 3..NumHandlers
    /\ hist.recorded[1] # {}
    /\ hist.recorded[2] # {}

\* C12: set_status(id, s, d) sets the status of id to s whatever it was,
\* stamps updated with the time of the call, and sets details to d when d
\* is not empty; with d absent or empty the details are those the record
\* had.
C12_SetStatusOverwrites ==
    (op.name = "set_status" /\ ~op.raised) =>
        /\ op.id \in FileKeys(file)
        /\ FileStatus(file, op.id) = op.status
        /\ "updated" \in DOMAIN FileObject(file, op.id)
        /\ DecodeValue(FileObject(file, op.id)["updated"]) = op.value
        /\ Truthy(op.details) => FileDetails(file, op.id) = op.details
        /\ ~Truthy(op.details) => FileDetails(file, op.id) = FileDetails(op.before, op.id)

C12_Witness ==
    /\ op.name = "set_status"
    /\ ~op.raised
    /\ FileStatus(op.before, op.id) = "earned"
    /\ op.status = "pending"
    /\ op.details = ""
    /\ FileDetails(op.before, op.id) # None

\* The targets an earlier run of the behaviour recorded as skipped and the
\* store still recorded as skipped when this run started.
StillSkipped ==
    {t \in hist.skippedBefore : FileStatus(hist.runStart, t) = "skipped"}

\* C13 as claimed: a badge recorded as skipped by one run is attempted again
\* by a later invocation: when its handler has returned in a later run, the
\* badge was among the targets the handler acted for.
C13_SkippedRetriedByLaterRun ==
    JustReturned =>
        \A t \in Range(hist.last.targets) \cap hist.skippedBefore :
            t \in Range(hist.last.actionable)

\* C13 as amended: a badge a run recorded as skipped is not attempted again
\* in that run, and while the store records it skipped no later run
\* attempts it either: no handler acts for it and its record stays as it
\* was.
C13_SkippedNeverRetried ==
    /\ pc \in {"mark", "act"} =>
          \A t \in Range(run_.actionable) : <<t, "skipped">> \notin hist.terminal
    /\ Readable(file) =>
          \A t \in StillSkipped :
              /\ t \notin Range(run_.actionable)
              /\ SameRecord(hist.runStart, file, t)
    /\ JustReturned =>
          \A t \in Range(hist.last.targets) \cap StillSkipped :
              t \notin Range(hist.last.actionable)

C13_Witness ==
    /\ JustReturned
    /\ hist.runs = 2
    /\ Range(hist.last.targets) \cap StillSkipped # {}
    /\ hist.last.ret

\* C14: once a step of a run has persisted earned or skipped for a badge,
\* the store shows that status for the badge at every later step of the
\* run.
C14_TerminalWithinRun ==
    Readable(file) => \A p \in hist.terminal : FileStatus(file, p[1]) = p[2]

\* C15: no step of a run removes a record: every id in the file before a
\* step is in the file after it, and the records of ids the catalog does not
\* have are the same after it (the death of the process inside a write is
\* not such a step).
C15_NoRecordRemoved ==
    [][(Readable(file) /\ ~(pc' = "crashed" /\ hist'.crashedAt = "save")) =>
          /\ Readable(file')
          /\ FileKeys(file) \subseteq FileKeys(file')
          /\ \A id \in FileKeys(file) \ CatalogIds :
                FileObject(file', id) = FileObject(file, id)]_vars

C15_Witness ==
    /\ pc = "done"
    /\ hist.saves > 0
    /\ file # hist.runStart
    /\ FileKeys(hist.runStart) \ CatalogIds # {}
    /\ FileKeys(file) \ CatalogIds = FileKeys(hist.runStart) \ CatalogIds

\* C16: starting with no file, after set_status calls only, on any ids and
\* with or without details, every record in the file has exactly the fields
\* status, updated and details.
C16_ExactlyThreeFields ==
    op.setOnly =>
        /\ Readable(file)
        /\ \A id \in FileKeys(file) :
              DOMAIN FileObject(file, id) = {"status", "updated", "details"}

\* C17: load_progress() right after save_progress(m), m a well-formed
\* mapping over the whole catalog, returns m.
C17_SaveLoadRoundTrip ==
    (op.name = "load_progress" /\ op.prev.name = "save_progress") =>
        /\ ~op.raised
        /\ op.data = op.prev.data

C17_Witness ==
    /\ op.name = "load_progress"
    /\ op.prev.name = "save_progress"
    /\ CatalogIds \subseteq Keys(op.data)
    /\ \E i \in DOMAIN op.data : op.data[i].rec["details"] = ""

\* C18: load_progress, get_status, is_earned and should_attempt leave the
\* file as they found it (no file stays no file), and load_progress() right
\* after load_progress() returns the same.
C18_QueriesLeaveFile ==
    /\ op.name \in {"load_progress", "get_status", "is_earned", "should_attempt"} =>
          file = op.before
    /\ (op.name = "load_progress" /\ op.prev.name = "load_progress") =>
          /\ op.raised = op.prev.raised
          /\ op.data = op.prev.data

C18_Witness ==
    /\ op.name = "load_progress"
    /\ op.prev.name = "load_progress"
    /\ ~op.raised
    /\ ~op.before.exists
    /\ ~file.exists

\* The handlers of the phase in registration order.
Registered == [i \in DOMAIN Actions(run_.phase) |-> Actions(run_.phase)[i].fn]

\* C19: the handlers invoked so far are the first registered handlers, each
\* once and in registration order; whatever the handlers before reported or
\* recorded, run() is at the handler after the last one that returned; when
\* run() returns it has invoked every registered handler.
C19_EveryHandlerOnceInOrder ==
    /\ Len(hist.invoked) <= NumHandlers
    /\ hist.invoked = SubSeq(Registered, 1, Len(hist.invoked))
    /\ pc = "enter" =>
          /\ run_.h = Len(hist.rets) + 1
          /\ Len(hist.invoked) = Len(hist.rets)
    /\ pc = "done" => hist.invoked = Registered

C19_Witness ==
    /\ pc = "done"
    /\ hist.rets[1] = FALSE
    /\ \E h \in DOMAIN hist.recorded : \E p \in hist.recorded[h] : p[2] = "failed"
    /\ \E h \in DOMAIN hist.recorded : \E p \in hist.recorded[h] : p[2] = "earned"

\* C20: when run() returns, attempted is the number of registered handlers
\* and succeeded the number of them that returned True, so
\* 0 <= succeeded <= attempted.
C20_CountersOnReturn ==
    pc = "done" =>
        /\ Len(hist.rets) = NumHandlers
        /\ hist.result[1] = NumHandlers
        /\ hist.result[2] = Cardinality({i \in DOMAIN hist.rets : hist.rets[i]})
        /\ 0 <= hist.result[2]
        /\ hist.result[2] <= hist.result[1]

C20_Witness ==
    /\ pc = "done"
    /\ hist.result[2] > 0
    /\ hist.result[2] < hist.result[1]

\* The run at hand is the first one started after the last hand edit.
EditedNow == hist.edit.id # "" /\ hist.runs = hist.edit.run + 1

\* The records of the file, in its order, but those of the ids given.
RecordsBut(f, ids) == SelectSeq(FileMembers(f), LAMBDA m : m.key \notin ids)

\* The handler of the phase that has the edited badge among its targets.
EditedHandler == CHOOSE h \in DOMAIN Actions(run_.phase) : hist.edit.id \in TargetsOf(h)

\* C21: in the first run after a hand edit that set one badge's record to
\* pending or removed it, the badge is eligible: its handler acts for it,
\* has it attempting when the remote action begins and leaves it earned,
\* failed or skipped; the edit left the records of the badges that are not
\* targets of that handler as they were, and the run leaves those that
\* were not eligible before the edit as they were.
C21_HandEditForcesReset ==
    EditedNow =>
        /\ FileStatus(hist.runStart, hist.edit.id) = "pending"
        /\ (pc \in {"mark", "act", "record"} /\ run_.h = EditedHandler) =>
              hist.edit.id \in Range(run_.actionable)
        /\ (pc = "act" /\ run_.h = EditedHandler) =>
              FileStatus(file, hist.edit.id) = "attempting"
        /\ Len(hist.rets) >= EditedHandler =>
              FileStatus(file, hist.edit.id) \in {"earned", "failed", "skipped"}
        /\ LET others == RecordsBut(hist.edit.before, TargetsOf(EditedHandler))
               settled == SelectSeq(others, LAMBDA m : DecodeValue(m.val["status"])
                                                          \notin {"pending", "failed"})
               keys == {settled[i].key : i \in DOMAIN settled}
           IN /\ RecordsBut(hist.runStart, TargetsOf(EditedHandler)) = others
              /\ SelectSeq(FileMembers(file), LAMBDA m : m.key \in keys) = settled

C21_Witness ==
    /\ EditedNow
    /\ JustReturned
    /\ hist.last.h = EditedHandler
    /\ hist.edit.kind = "removed"
    /\ FileStatus(hist.edit.before, hist.edit.id) = "earned"
    /\ hist.edit.id \in Range(hist.last.actionable)
    /\ hist.last.remote

\* C22: set_status(id, ...) over a readable file leaves the record of every
\* other id of the file as it was; the ids of the file afterwards are those
\* it had, id, and the catalog ids, those it lacked being pending records.
C22_SetStatusChangesOneRecord ==
    (op.name = "set_status" /\ ~op.raised) =>
        /\ \A k \in FileKeys(op.before) \ {op.id} :
              /\ k \in FileKeys(file)
              /\ FileObject(file, k) = FileObject(op.before, k)
        /\ FileKeys(file) = FileKeys(op.before) \cup CatalogIds \cup {op.id}
        /\ \A k \in CatalogIds \ (FileKeys(op.before) \cup {op.id}) :
              FileObject(file, k) = EncodeRec(PendingRecord)

C22_Witness ==
    /\ op.name = "set_status"
    /\ ~op.raised
    /\ op.id = "competitor"
    /\ op.status = "failed"
    /\ "legacy_badge" \in FileKeys(op.before)
    /\ CatalogIds \ FileKeys(op.before) # {}
    /\ file # op.before

\* C23: when a handler with an eligible target has returned True, every
\* target that was eligible at its start is earned; when it has returned
\* False, every such target is failed or skipped.
C23_OutcomeAgreesWithStore ==
    (JustReturned /\ Eligible(hist.last.before, hist.last.targets) # {}) =>
        \A t \in Eligible(hist.last.before, hist.last.targets) :
            /\ hist.last.ret => FileStatus(file, t) = "earned"
            /\ ~hist.last.ret => FileStatus(file, t) \in {"failed", "skipped"}
            /\ FileStatus(file, t) \notin {"pending", "attempting"}

C23_Witness ==
    /\ JustReturned
    /\ ~hist.last.before.exists
    /\ hist.last.ret
    /\ Cardinality(Eligible(hist.last.before, hist.last.targets)) = 2
    /\ \A t \in Range(hist.last.targets) : FileStatus(file, t) = "earned"

\* The targets of the handlers of the phase.
PhaseTargets == UNION {TargetsOf(h) : h \in DOMAIN Actions(run_.phase)}

\* The targets the store recorded as attempting when the run started.
Stranded ==
    LET members == FileMembers(hist.runStart)
        attempting == {i \in DOMAIN members :
                          /\ "status" \in DOMAIN members[i].val
                          /\ DecodeValue(members[i].val["status"]) = "attempting"}
    IN {members[i].key : i \in attempting} \cap PhaseTargets

NoDuplicates(seq) == \A i, j \in DOMAIN seq : i # j => seq[i] # seq[j]

\* C25: in one run no handler starts its remote action twice and no badge
\* is set to attempting twice; no badge is a target of two handlers.
C25_NoRetryWithinRun ==
    /\ NoDuplicates(hist.remote)
    /\ NoDuplicates(hist.marked)
    /\ \A g, h \in DOMAIN Actions(run_.phase) : g # h => TargetsOf(g) \cap TargetsOf(h) = {}

C25_Witness ==
    /\ pc = "done"
    /\ Range(hist.marked) = PhaseTargets
    /\ FALSE \in Range(hist.rets)
    /\ hist.remote # <<>>

\* C26: in a behaviour that began with no file, whenever the file is
\* readable the record of a catalog badge has no updated exactly when its
\* status is pending.
C26_UpdatedAbsentIffPending ==
    (hist.fresh /\ Readable(file)) =>
        LET data == load_progress(file).data IN
        /\ CatalogIds \subseteq Keys(data)
        /\ \A i \in DOMAIN data :
              data[i].key \in CatalogIds =>
                  ((data[i].rec["updated"] = None) <=> (StatusOf(data[i].rec) = "pending"))

C26_Witness ==
    /\ hist.fresh
    /\ hist.runs = 1
    /\ pc = "crashed"
    /\ hist.crashedAt = "act"
    /\ \E t \in PhaseTargets : FileStatus(file, t) = "attempting"
    /\ \E t \in PhaseTargets : FileStatus(file, t) = "pending"
    /\ \E t \in PhaseTargets : FileStatus(file, t) = "skipped"

\* C27: whenever the file is readable, every record in it has a status and
\* the status is one of pending, attempting, earned, failed and skipped.
C27_StatusIsOneOfFive ==
    Readable(file) =>
        LET members == FileMembers(file) IN
        \A i \in DOMAIN members :
            /\ "status" \in DOMAIN members[i].val
            /\ DecodeValue(members[i].val["status"]) \in Statuses

C27_Witness ==
    /\ pc = "done"
    /\ hist.saves > 0
    /\ {FileStatus(file, id) : id \in FileKeys(file)} = Statuses

\* C28: when a run that began with no file returns, every catalog badge of
\* the phase is earned, failed or skipped, and every other catalog badge is
\* the pending record load_progress made for it.
C28_HandlersCoverPhase ==
    (pc = "done" /\ ~hist.runStart.exists) =>
        \A i \in DOMAIN Catalog :
            /\ Catalog[i].phase = run_.phase =>
                  /\ Catalog[i].automatable
                  /\ FileStatus(file, Catalog[i].id) \in {"earned", "failed", "skipped"}
            /\ Catalog[i].phase # run_.phase =>
                  /\ Catalog[i].id \in FileKeys(file)
                  /\ FileObject(file, Catalog[i].id) = EncodeRec(PendingRecord)

C28_Witness ==
    /\ pc = "done"
    /\ ~hist.runStart.exists
    /\ run_.phase = 4
    /\ \E t \in PhaseTargets : FileStatus(file, t) = "earned"
    /\ \E t \in PhaseTargets : FileStatus(file, t) = "skipped"
    /\ \E i \in DOMAIN Catalog : ~Catalog[i].automatable

====
